---- MODULE Spec2Model ----
(***************************************************************************)
(* Model of h3o-viewer (src/src/lib.rs): the H3oViewer builder, the        *)
(* feature-collection builder cells_to_features, the label derivation and  *)
(* the publisher show_in_browser / open_in_browser.                        *)
(***************************************************************************)
EXTENDS Integers, Sequences, FiniteSets, TLC

\* ------------------------------------------------------------------ bounds
MaxRes == 1          \* resolutions 0..MaxRes exist in the modelled grid
GridSize == 3        \* cells per resolution (a ring: each cell has 2 neighbours)
MaxGroups == 2       \* groups handed to for_cell_groups
MaxCells == 2        \* cells handed in, over all groups
MaxCircles == 1      \* draw_circle calls
MaxLengthHm == 6001  \* edge lengths 0..MaxLengthHm, in half metres
FineEdgeHm == 1500   \* length (half metres) of the finest edges of the grid
HashSpace == 16      \* size of the stand-in hash space

\* ------------------------------------------------- the grid (h3o, external)
\* A CellIndex is an integer whose high part is the resolution, as in the
\* H3 bit layout, so that the integer order is CellIndex's Ord.
Resolution(cell) == cell \div GridSize
Position(cell) == cell % GridSize
MkCell(res, pos) == res * GridSize + pos
\* what callers hand in: a cell, one of its neighbours and its parent
InputCells == {MkCell(MaxRes, 0), MkCell(MaxRes, 1), MkCell(MaxRes - 1, 0)}

\* cell.edges(): the directed edges leaving the cell, (origin, destination)
Edges(cell) ==
    << <<cell, MkCell(Resolution(cell), (Position(cell) + 1) % GridSize)>>,
       <<cell, MkCell(Resolution(cell), (Position(cell) + GridSize - 1) % GridSize)>> >>

\* edge.cells()
EdgeCells(edge) == <<edge[1], edge[2]>>

\* edge.length_m(), in half metres; the same for an edge and its inverse
EdgeLengthHm(edge) ==
    FineEdgeHm * (1 + 2 * (MaxRes - Resolution(edge[1])))
        + Position(edge[1]) + Position(edge[2])

\* ------------------------------------------------------------ text helpers
HexDigitsLower == <<"0","1","2","3","4","5","6","7","8","9","a","b","c","d","e","f">>
HexDigitsUpper == <<"0","1","2","3","4","5","6","7","8","9","A","B","C","D","E","F">>

RECURSIVE HexText(_, _)
HexText(n, digits) ==
    IF n < 16 THEN digits[n + 1]
    ELSE HexText(n \div 16, digits) \o digits[(n % 16) + 1]

\* cell.to_string(): the index in lower-case hexadecimal
CellToString(cell) == HexText(cell, HexDigitsLower)

\* format!("{:.0}", x) for x = num / den: nearest integer, ties to even
RoundHalfEven(num, den) ==
    LET q == num \div den
        r == num % den
    IN  IF 2 * r < den THEN q
        ELSE IF 2 * r > den THEN q + 1
        ELSE IF q % 2 = 0 THEN q ELSE q + 1

\* ---------------------------------------------------------------- Settings
NoFilename == {}
DefaultSettings ==
    [cell_resolutions |-> FALSE,
     cell_indexes     |-> FALSE,
     edge_lengths     |-> FALSE,
     separate_cells   |-> TRUE,
     filename         |-> NoFilename]

CustomNames == {"custom.html"}
Centers == {<<52, 4>>}
Radii == {150}

\* ------------------------------------------------------------------- state
VARIABLES
    cell_groups,   \* H3oViewer.cell_groups
    settings,      \* H3oViewer.settings
    circles,       \* H3oViewer.circles
    pc,            \* position of the caller / of show_in_browser
    filename,      \* show_in_browser: the chosen file name ({} before)
    html,          \* the RenderedDocument, {} or {document}
    path,          \* open_in_browser: the path that was written ({} before)
    files,         \* the file system: set of [path, content]
    launched,      \* paths handed to webbrowser::open that opened
    open_result,   \* what open_in_browser returned: "none", "Ok", "Err"
    ret,           \* what the caller got: "none", "unit", "html", "panic"
    log,           \* the effects of the call so far, in order
    untouched,     \* TRUE while no setter has been called on the viewer
    edge_length,   \* get_edge_properties: the edge's length, half metres
    edge_label     \* get_edge_properties: the label computed for it

vars == <<cell_groups, settings, circles, pc, filename, html, path, files,
          launched, open_result, ret, log, untouched, edge_length, edge_label>>

\* ------------------------------------------------------------ Vec helpers
Contains(seq, x) == \E i \in 1 .. Len(seq) : seq[i] = x

RECURSIVE Insert(_, _)
Insert(sorted, x) ==
    IF sorted = <<>> THEN <<x>>
    ELSE IF x < Head(sorted) THEN <<x>> \o sorted
    ELSE <<Head(sorted)>> \o Insert(Tail(sorted), x)

\* Vec::sort
RECURSIVE Sort(_)
Sort(seq) == IF seq = <<>> THEN <<>> ELSE Insert(Sort(Tail(seq)), Head(seq))

\* Vec::dedup: removes consecutive repeated elements
RECURSIVE Dedup(_)
Dedup(seq) ==
    IF Len(seq) <= 1 THEN seq
    ELSE IF seq[1] = seq[2] THEN Dedup(Tail(seq))
    ELSE <<seq[1]>> \o Dedup(Tail(seq))

SortDedupNoSort(cell_group) == Dedup(cell_group)

\* cell_group.sort(); cell_group.dedup();
SortDedup(cell_group) == Dedup(Sort(cell_group))

\* ------------------------------------------------------ geometry (h3o ToGeo)
CellToGeojson(cell) == [type |-> "Polygon", of |-> <<cell>>]
EdgeToGeojson(edge) == [type |-> "LineString", of |-> <<edge[1], edge[2]>>]

\* Vec<CellIndex>::to_geojson(): fails on mixed resolutions and on duplicates,
\* otherwise the merged outline of the cells as handed in
CellsToGeojson(cells) ==
    IF \/ \E i, j \in 1 .. Len(cells) : Resolution(cells[i]) # Resolution(cells[j])
       \/ \E i, j \in 1 .. Len(cells) : i # j /\ cells[i] = cells[j]
    THEN [ok |-> FALSE, geometry |-> [type |-> "None", of |-> <<>>]]
    ELSE [ok |-> TRUE, geometry |-> [type |-> "MultiPolygon", of |-> cells]]

\* ------------------------------------------------------------------ labels
ThresholdHm == 1000 * 2

EdgeLabelGe(length) ==
    IF length >= ThresholdHm
    THEN ToString(RoundHalfEven(length, 1000 * 2)) \o " km"
    ELSE ToString(RoundHalfEven(length, 2)) \o " m"

\* get_edge_properties: the label text for an edge of the given length
EdgeLabel(length) ==
    IF length > ThresholdHm
    THEN ToString(RoundHalfEven(length, 1000 * 2)) \o " km"
    ELSE ToString(RoundHalfEven(length, 2)) \o " m"

GetEdgeProperties(edge) == [label |-> EdgeLabel(EdgeLengthHm(edge))]

GetCellPropertiesSepAlways(cell) ==
    LET res == IF settings.cell_resolutions
               THEN "Res: " \o ToString(Resolution(cell)) ELSE ""
        sep == IF settings.cell_resolutions \/ settings.cell_indexes
               THEN res \o "<br>" ELSE res
        val == IF settings.cell_indexes
               THEN sep \o CellToString(cell) ELSE sep
    IN  [label |-> val]

GetCellProperties(cell) ==
    LET res == IF settings.cell_resolutions
               THEN "Res: " \o ToString(Resolution(cell)) ELSE ""
        sep == IF settings.cell_resolutions /\ settings.cell_indexes
               THEN res \o "<br>" ELSE res
        val == IF settings.cell_indexes
               THEN sep \o CellToString(cell) ELSE sep
    IN  [label |-> val]

\* ---------------------------------------------------------------- features
CellToFeature(cell) ==
    [geometry |-> {CellToGeojson(cell)}, properties |-> {GetCellProperties(cell)}]

EdgeToFeature(edge) ==
    [geometry |-> {EdgeToGeojson(edge)}, properties |-> {GetEdgeProperties(edge)}]

\* inverse(edge): (destination, origin)
Inverse(edge) == <<edge[2], edge[1]>>

\* the inner loop of cells_to_features over cell.edges()
RECURSIVE EdgeLoop(_, _, _, _)
EdgeLoop(edges, j, feature_list, edges_seen) ==
    IF j > Len(edges)
    THEN [feature_list |-> feature_list, edges_seen |-> edges_seen]
    ELSE IF ~Contains(edges_seen, Inverse(edges[j]))
    THEN EdgeLoop(edges, j + 1,
                  Append(feature_list, EdgeToFeature(edges[j])),
                  Append(edges_seen, EdgeCells(edges[j])))
    ELSE EdgeLoop(edges, j + 1, feature_list, edges_seen)

\* the outer loop of cells_to_features over cell_groups[0]
RECURSIVE CellLoop(_, _, _, _)
CellLoop(cells, i, feature_list, edges_seen) ==
    IF i > Len(cells) THEN feature_list
    ELSE LET with_cell == Append(feature_list, CellToFeature(cells[i]))
         IN  IF settings.edge_lengths
             THEN LET after == EdgeLoop(Edges(cells[i]), 1, with_cell, edges_seen)
                  IN  CellLoop(cells, i + 1, after.feature_list, after.edges_seen)
             ELSE CellLoop(cells, i + 1, with_cell, edges_seen)

GroupToFeatureRecover(cell_group) ==
    LET merged == CellsToGeojson(SortDedup(cell_group))
    IN  [ok |-> TRUE,
         feature |-> [geometry |-> IF merged.ok THEN {merged.geometry} ELSE {},
                      properties |-> {}]]

\* the closure of the grouped branch: sort, dedup, merge, expect
GroupToFeature(cell_group) ==
    LET merged == CellsToGeojson(SortDedup(cell_group))
    IN  [ok |-> merged.ok,
         feature |-> [geometry |-> {merged.geometry}, properties |-> {}]]

SeparateCellsFlagOnly == settings.separate_cells /\ Len(cell_groups) >= 1

\* the condition of cells_to_features' if
SeparateCells == settings.separate_cells /\ Len(cell_groups) = 1

\* cells_to_features: ok = FALSE is the panic of expect
CellsToFeatures ==
    IF SeparateCells
    THEN [ok |-> TRUE, features |-> CellLoop(cell_groups[1], 1, <<>>, <<>>)]
    ELSE LET each == [g \in 1 .. Len(cell_groups) |-> GroupToFeature(cell_groups[g])]
         IN  IF \E g \in 1 .. Len(cell_groups) : ~each[g].ok
             THEN [ok |-> FALSE, features |-> <<>>]
             ELSE [ok |-> TRUE,
                   features |-> [g \in 1 .. Len(cell_groups) |-> each[g].feature]]

\* ---------------------------------------------------------------- overlays
RECURSIVE CirclesText(_)
CirclesText(cs) ==
    IF cs = <<>> THEN ""
    ELSE "L.circle([" \o ToString(cs[1][1][1]) \o ", " \o ToString(cs[1][1][2])
         \o "], {radius: " \o ToString(cs[1][2])
         \o ", fill: false, color: '#ee0000'}).addTo(map);\n"
         \o CirclesText(Tail(cs))

\* generate_circles
GenerateCircles == CirclesText(circles)

\* generate_html: the template with both placeholders replaced
HtmlOf(features) ==
    [template |-> "viewer.html", geojson |-> features, circles |-> GenerateCircles]

\* ----------------------------------------------------------------- hashing
RECURSIVE SumCells(_, _)
SumCells(cells, i) ==
    IF i > Len(cells) THEN 0 ELSE (i + 1) * (cells[i] + 1) + SumCells(cells, i + 1)

RECURSIVE SumGroups(_, _)
SumGroups(groups, g) ==
    IF g > Len(groups) THEN 0
    ELSE 3 * g + SumCells(groups[g], 1) + SumGroups(groups, g + 1)

RECURSIVE SumCircles(_, _)
SumCircles(cs, i) ==
    IF i > Len(cs) THEN 0
    ELSE 5 * i + cs[i][1][1] + cs[i][1][2] + 11 * cs[i][2] + SumCircles(cs, i + 1)

Bit(b) == IF b THEN 1 ELSE 0

\* impl Hash for H3oViewer fed to DefaultHasher: a deterministic digest of
\* the Debug text of cell_groups, settings and circles.  std's SipHash is
\* stood in for by a checksum into HashSpace values.
HashOfViewer ==
    ( SumGroups(cell_groups, 1)
      + Bit(settings.cell_indexes) + 2 * Bit(settings.edge_lengths)
      + 4 * Bit(settings.separate_cells) + 8 * Bit(settings.cell_resolutions)
      + 16 * Cardinality(settings.filename)
      + SumCircles(circles, 1) ) % HashSpace

\* the match on settings.filename in show_in_browser
FilenameOf ==
    IF settings.filename # NoFilename
    THEN CHOOSE override_filename \in settings.filename : TRUE
    ELSE "h3o-viewer-" \o HexText(HashOfViewer, HexDigitsUpper) \o ".html"

\* ------------------------------------------------------------------- paths
CargoDir == "crate"
DefaultPath(name) == <<CargoDir, "target", name>>
SecondPath(name) == <<CargoDir, name>>

\* ------------------------------------------------------------ construction
Groups == UNION {[1 .. n -> InputCells] : n \in 0 .. MaxCells}

RECURSIVE TotalCells(_)
TotalCells(groups) ==
    IF groups = <<>> THEN 0 ELSE Len(Head(groups)) + TotalCells(Tail(groups))

GroupLists ==
    {groups \in UNION {[1 .. n -> Groups] : n \in 0 .. MaxGroups} :
         TotalCells(groups) <= MaxCells}

callVars == <<filename, html, path, files, launched, open_result, ret, log>>
edgeVars == <<edge_length, edge_label>>

NoCall ==
    /\ filename = {}
    /\ html = {}
    /\ path = {}
    /\ files = {}
    /\ launched = <<>>
    /\ open_result = "none"
    /\ ret = "none"
    /\ log = <<>>

\* for_cells (one group) and for_cell_groups (any number of groups)
Init ==
    /\ cell_groups \in GroupLists
    /\ settings = DefaultSettings
    /\ circles = <<>>
    /\ pc = "build"
    /\ untouched = TRUE
    /\ NoCall
    /\ edge_length = 0
    /\ edge_label = ""

\* ----------------------------------------------------------------- setters
Set(field, value) ==
    /\ pc = "build"
    /\ settings' = [settings EXCEPT ![field] = value]
    /\ untouched' = FALSE
    /\ UNCHANGED <<cell_groups, circles, pc, callVars, edgeVars>>

with_cell_indexes == \E set_on \in BOOLEAN : Set("cell_indexes", set_on)
with_edge_lengths == \E set_on \in BOOLEAN : Set("edge_lengths", set_on)
with_cell_resolutions == \E set_on \in BOOLEAN : Set("cell_resolutions", set_on)
render_cells_separately == \E set_on \in BOOLEAN : Set("separate_cells", set_on)
custom_filename == \E name \in CustomNames : Set("filename", {name})

draw_circle ==
    /\ pc = "build"
    /\ Len(circles) < MaxCircles
    /\ \E center \in Centers, radius \in Radii :
           circles' = Append(circles, <<center, radius>>)
    /\ untouched' = FALSE
    /\ UNCHANGED <<cell_groups, settings, pc, callVars, edgeVars>>

\* -------------------------------------------------------------- generation
Event(ev, p, ok) == [ev |-> ev, path |-> p, ok |-> ok]

\* generate_html called by the user: the document or the panic of expect
generate_html ==
    /\ pc = "build"
    /\ LET built == CellsToFeatures
       IN  IF built.ok
           THEN /\ html' = {HtmlOf(built.features)}
                /\ ret' = "html"
                /\ log' = Append(log, Event("generated", <<>>, TRUE))
           ELSE /\ html' = {}
                /\ ret' = "panic"
                /\ log' = log
    /\ pc' = "done"
    /\ UNCHANGED <<cell_groups, settings, circles, filename, path, files,
                   launched, open_result, untouched, edgeVars>>

\* show_in_browser up to the call of open_in_browser: hash, file name, html
show_in_browser ==
    /\ pc = "build"
    /\ filename' = {FilenameOf}
    /\ LET built == CellsToFeatures
       IN  IF built.ok
           THEN /\ html' = {HtmlOf(built.features)}
                /\ ret' = ret
                /\ log' = Append(log, Event("generated", <<>>, TRUE))
                /\ pc' = "open"
           ELSE /\ html' = {}
                /\ ret' = "panic"
                /\ log' = log
                /\ pc' = "done"
    /\ UNCHANGED <<cell_groups, settings, circles, path, files, launched,
                   open_result, untouched, edgeVars>>

TheFilename == CHOOSE name \in filename : TRUE
TheHtml == CHOOSE doc \in html : TRUE

WriteFile(p, content) ==
    {f \in files : f.path # p} \cup {[path |-> p, content |-> content]}

\* open_in_browser: CARGO_MANIFEST_DIR is not set, unwrap panics
env_missing ==
    /\ pc = "open"
    /\ ret' = "panic"
    /\ pc' = "done"
    /\ UNCHANGED <<cell_groups, settings, circles, filename, html, path, files,
                   launched, open_result, log, untouched, edgeVars>>

\* open_in_browser: fs::write(&default_path, html) is Ok
write_default_ok ==
    /\ pc = "open"
    /\ files' = WriteFile(DefaultPath(TheFilename), TheHtml)
    /\ path' = {DefaultPath(TheFilename)}
    /\ log' = Append(log, Event("write", DefaultPath(TheFilename), TRUE))
    /\ pc' = "launch"
    /\ UNCHANGED <<cell_groups, settings, circles, filename, html, launched,
                   open_result, ret, untouched, edgeVars>>

\* open_in_browser: fs::write(&default_path, html) is Err
write_default_err ==
    /\ pc = "open"
    /\ log' = Append(log, Event("write", DefaultPath(TheFilename), FALSE))
    /\ pc' = "second"
    /\ UNCHANGED <<cell_groups, settings, circles, filename, html, path, files,
                   launched, open_result, ret, untouched, edgeVars>>

\* open_in_browser: fs::write(&second_path, html) is Ok
write_second_ok ==
    /\ pc = "second"
    /\ files' = WriteFile(SecondPath(TheFilename), TheHtml)
    /\ path' = {SecondPath(TheFilename)}
    /\ log' = Append(log, Event("write", SecondPath(TheFilename), TRUE))
    /\ pc' = "launch"
    /\ UNCHANGED <<cell_groups, settings, circles, filename, html, launched,
                   open_result, ret, untouched, edgeVars>>

write_second_err_ignored ==
    /\ pc = "second"
    /\ log' = Append(log, Event("write", SecondPath(TheFilename), FALSE))
    /\ path' = {SecondPath(TheFilename)}
    /\ pc' = "launch"
    /\ UNCHANGED <<cell_groups, settings, circles, filename, html, files,
                   launched, open_result, ret, untouched, edgeVars>>

\* open_in_browser: fs::write(&second_path, html)? returns the error, which
\* show_in_browser drops with `let _ =` before returning ()
write_second_err ==
    /\ pc = "second"
    /\ log' = Append(log, Event("write", SecondPath(TheFilename), FALSE))
    /\ open_result' = "Err"
    /\ ret' = "unit"
    /\ pc' = "done"
    /\ UNCHANGED <<cell_groups, settings, circles, filename, html, path, files,
                   launched, untouched, edgeVars>>

ThePath == CHOOSE p \in path : TRUE

\* open_in_browser: webbrowser::open(path) is Ok; show_in_browser returns ()
launch_ok ==
    /\ pc = "launch"
    /\ launched' = Append(launched, ThePath)
    /\ log' = Append(log, Event("launch", ThePath, TRUE))
    /\ open_result' = "Ok"
    /\ ret' = "unit"
    /\ pc' = "done"
    /\ UNCHANGED <<cell_groups, settings, circles, filename, html, path, files,
                   untouched, edgeVars>>

\* open_in_browser: webbrowser::open(path)? returns the error, which
\* show_in_browser drops with `let _ =` before returning ()
launch_err ==
    /\ pc = "launch"
    /\ log' = Append(log, Event("launch", ThePath, FALSE))
    /\ open_result' = "Err"
    /\ ret' = "unit"
    /\ pc' = "done"
    /\ UNCHANGED <<cell_groups, settings, circles, filename, html, path, files,
                   launched, untouched, edgeVars>>

Next ==
    \/ with_cell_indexes
    \/ with_edge_lengths
    \/ with_cell_resolutions
    \/ render_cells_separately
    \/ custom_filename
    \/ draw_circle
    \/ generate_html
    \/ show_in_browser
    \/ env_missing
    \/ write_default_ok
    \/ write_default_err
    \/ write_second_ok
    \/ write_second_err
    \/ launch_ok
    \/ launch_err

Spec == Init /\ [][Next]_vars

\* ------------------------------------------- get_edge_properties on its own
InitEdge ==
    /\ cell_groups = <<>>
    /\ settings = DefaultSettings
    /\ circles = <<>>
    /\ pc = "edge"
    /\ untouched = TRUE
    /\ NoCall
    /\ edge_length \in 0 .. MaxLengthHm
    /\ edge_label = ""

get_edge_properties ==
    /\ pc = "edge"
    /\ edge_label' = EdgeLabel(edge_length)
    /\ pc' = "labelled"
    /\ UNCHANGED <<cell_groups, settings, circles, callVars, untouched, edge_length>>

NextEdge == get_edge_properties

SpecEdge == InitEdge /\ [][NextEdge]_vars

\* ================================================================== claims
Range(seq) == {seq[i] : i \in 1 .. Len(seq)}

IsCellFeature(f) == \E g \in f.geometry : g.type = "Polygon"
IsEdgeFeature(f) == \E g \in f.geometry : g.type = "LineString"

Generated == html # {}
FeaturesOut == TheHtml.geojson

SeparateRequested == settings.separate_cells = TRUE /\ Len(cell_groups) = 1

\* ---------------------------------------------------------------------- C1
EdgeFeaturesOut == SelectSeq(FeaturesOut, IsEdgeFeature)
EdgeOf(f) == (CHOOSE g \in f.geometry : TRUE).of

UndirectedEdges(cells) ==
    {{e[1], e[2]} : e \in UNION {Range(Edges(c)) : c \in Range(cells)}}

\* C1: in separate-cells mode with show_edge_length, for every group (repeated
\* cells included) no directed edge is emitted twice, an edge and its inverse
\* are never both emitted, and the number of edge Features is the number of
\* unique undirected boundary edges of the input cells.
C1_EachBoundaryOnce ==
    (Generated /\ SeparateRequested /\ settings.edge_lengths) =>
        LET ef == EdgeFeaturesOut
        IN  /\ \A i, j \in 1 .. Len(ef) : i # j => EdgeOf(ef[i]) # EdgeOf(ef[j])
            /\ \A i, j \in 1 .. Len(ef) : EdgeOf(ef[i]) # Inverse(EdgeOf(ef[j]))
            /\ Len(ef) = Cardinality(UndirectedEdges(cell_groups[1]))

\* ---------------------------------------------------------------------- C2
IsGroupedOutput(fs) ==
    /\ Len(fs) = Len(cell_groups)
    /\ \A i \in 1 .. Len(fs) : fs[i].properties = {} /\ fs[i].geometry # {}

IsSeparateOutput(fs, cells) ==
    LET cf == SelectSeq(fs, IsCellFeature)
    IN  /\ \A i \in 1 .. Len(fs) : fs[i].properties # {}
        /\ \A i \in 1 .. Len(fs) : IsCellFeature(fs[i]) \/ IsEdgeFeature(fs[i])
        /\ Len(cf) = Len(cells)
        /\ \A i \in 1 .. Len(cf) : cf[i].geometry = {CellToGeojson(cells[i])}

\* C2: the output is separate-cells output if and only if
\* render_cells_separately is true and exactly one group was supplied; with
\* more than one group it is grouped output (one property-less Feature per
\* group) whatever the flags; only the grouped branch can fail.
C2_ModeSelection ==
    /\ Generated =>
          /\ SeparateRequested =>
                 /\ IsSeparateOutput(FeaturesOut, cell_groups[1])
                 /\ ~IsGroupedOutput(FeaturesOut)
          /\ ~SeparateRequested => IsGroupedOutput(FeaturesOut)
          /\ Len(cell_groups) > 1 => IsGroupedOutput(FeaturesOut)
    /\ (pc = "done" /\ ~Generated) => ~SeparateRequested

C2_Witness ==
    /\ Generated
    /\ Len(cell_groups) = 2
    /\ settings.separate_cells /\ settings.edge_lengths /\ settings.cell_indexes
    /\ TotalCells(cell_groups) = MaxCells
    /\ IsGroupedOutput(FeaturesOut)

\* ---------------------------------------------------------------------- C3
MixedResolutions(cells) ==
    \E i, j \in 1 .. Len(cells) : Resolution(cells[i]) # Resolution(cells[j])

MixedGroupedRender ==
    /\ ~SeparateRequested
    /\ \E g \in 1 .. Len(cell_groups) : MixedResolutions(cell_groups[g])

\* C3: a grouped-mode render in which one group mixes two resolutions fails
\* (the call ends in the panic of expect, which reaches the caller) and
\* produces no document: no html, no file written, no viewer launched.
C3_MixedResolutionFails ==
    MixedGroupedRender =>
        /\ html = {}
        /\ files = {}
        /\ launched = <<>>
        /\ log = <<>>
        /\ open_result = "none"
        /\ pc \in {"build", "done"}
        /\ pc = "done" => ret = "panic"

C3_Witness ==
    /\ MixedGroupedRender
    /\ pc = "done"
    /\ ret = "panic"
    /\ filename # {}
    /\ files = {}

\* ---------------------------------------------------------------------- C4
\* C4: when open_in_browser failed (both writes failed, or the launch
\* failed) the caller of show_in_browser is handed the failure, and after a
\* failed launch the written file is still in place.
C4_FailuresSurfaced ==
    (pc = "done" /\ open_result = "Err") =>
        /\ ret = "error"
        /\ (path # {} => \E f \in files : f.path = ThePath /\ f.content = TheHtml)

\* ---------------------------------------------------------------------- C5
\* C5: a viewer on which no setter was called has show_cell_index = false,
\* show_edge_length = false, show_resolution = true,
\* render_cells_separately = true and no file name, and its separate-cells
\* render labels every cell with its resolution.
C5_Defaults ==
    untouched =>
        /\ settings.cell_indexes = FALSE
        /\ settings.edge_lengths = FALSE
        /\ settings.cell_resolutions = TRUE
        /\ settings.separate_cells = TRUE
        /\ settings.filename = {}
        /\ (Generated /\ Len(cell_groups) = 1) =>
               \A i \in 1 .. Len(FeaturesOut) :
                   FeaturesOut[i].properties =
                       {[label |-> "Res: "
                             \o ToString(Resolution(cell_groups[1][i]))]}

\* ---------------------------------------------------------------------- C7
RECURSIVE CanonicalSeq(_)
CanonicalSeq(S) ==
    IF S = {} THEN <<>>
    ELSE LET least == CHOOSE x \in S : \A y \in S : x <= y
         IN  <<least>> \o CanonicalSeq(S \ {least})

SameResolution(cells) == ~MixedResolutions(cells)

\* C7: grouped mode emits one Feature per group, in group order, each with a
\* geometry and no properties, and the geometry of a group's Feature is the
\* merge of the set of its cells, whatever their order and repetitions.
C7_GroupedFeatures ==
    (Generated /\ ~SeparateRequested) =>
        /\ Len(FeaturesOut) = Len(cell_groups)
        /\ \A g \in 1 .. Len(cell_groups) :
               /\ FeaturesOut[g].properties = {}
               /\ FeaturesOut[g].geometry =
                      {[type |-> "MultiPolygon",
                        of |-> CanonicalSeq(Range(cell_groups[g]))]}

C7_Witness ==
    /\ Generated
    /\ Len(cell_groups) = 2
    /\ cell_groups[1] # <<>> /\ cell_groups[2] # <<>>
    /\ Range(cell_groups[1]) \cap Range(cell_groups[2]) = {}
    /\ SameResolution(cell_groups[1] \o cell_groups[2])
    /\ Len(FeaturesOut) = 2
    /\ \A i \in 1 .. 2 : FeaturesOut[i].properties = {}

\* ---------------------------------------------------------------------- C8
ExpectedLabel(cell) ==
    IF settings.cell_resolutions /\ settings.cell_indexes
    THEN "Res: " \o ToString(Resolution(cell)) \o "<br>" \o CellToString(cell)
    ELSE IF settings.cell_resolutions
    THEN "Res: " \o ToString(Resolution(cell))
    ELSE IF settings.cell_indexes
    THEN CellToString(cell)
    ELSE ""

\* C8: in separate-cells mode every cell Feature carries the key "label",
\* whose text is "Res: {resolution}<br>{index}" with both flags, only
\* "Res: {resolution}" or only the index with one flag, and "" with none.
C8_CellLabels ==
    (Generated /\ SeparateRequested) =>
        LET cf == SelectSeq(FeaturesOut, IsCellFeature)
        IN  /\ Len(cf) = Len(cell_groups[1])
            /\ \A i \in 1 .. Len(cf) :
                   cf[i].properties = {[label |-> ExpectedLabel(cell_groups[1][i])]}

C8_Witness ==
    /\ Generated
    /\ SeparateRequested
    /\ settings.cell_resolutions /\ settings.cell_indexes
    /\ Len(cell_groups[1]) = MaxCells
    /\ \E f \in Range(FeaturesOut) :
           f.properties = {[label |-> "Res: " \o ToString(MaxRes) \o "<br>"
                                       \o CellToString(MkCell(MaxRes, 1))]}

\* ---------------------------------------------------------------------- C9
Distance(a, b) == IF a >= b THEN a - b ELSE b - a

\* C9: an edge strictly longer than 1000 m is labelled with its length in
\* kilometres rounded to a nearest integer and " km", any other edge with its
\* length in metres rounded to a nearest integer and " m"; 999 m gives
\* "999 m", 1500 m gives "2 km" and 1000 m gives "1000 m".
C9_EdgeLabel ==
    pc = "labelled" =>
        /\ IF edge_length > 1000 * 2
           THEN \E n \in 0 .. (edge_length \div 2000) + 1 :
                    /\ edge_label = ToString(n) \o " km"
                    /\ 2 * Distance(2000 * n, edge_length) <= 2000
           ELSE \E n \in 0 .. (edge_length \div 2) + 1 :
                    /\ edge_label = ToString(n) \o " m"
                    /\ 2 * Distance(2 * n, edge_length) <= 2
        /\ edge_length = 999 * 2 => edge_label = "999 m"
        /\ edge_length = 1500 * 2 => edge_label = "2 km"
        /\ edge_length = 1000 * 2 => edge_label = "1000 m"

C9_Witness ==
    /\ pc = "labelled"
    /\ edge_length = 1500 * 2
    /\ edge_label = "2 km"

\* --------------------------------------------------------------------- C10
Writes == SelectSeq(log, LAMBDA e : e.ev = "write")
Launches == SelectSeq(log, LAMBDA e : e.ev = "launch")

\* C10: the document is generated before any write; the primary location is
\* written first and the fallback only right after the primary write failed;
\* the viewer is launched at most once, only right after a write succeeded
\* and on the path of that write; after two failed writes it is not launched.
C10_PublishingOrder ==
    /\ log # <<>> => (log[1].ev = "generated" /\ Generated)
    /\ \A i \in 2 .. Len(log) : log[i].ev # "generated"
    /\ Len(Writes) <= 2
    /\ Len(Writes) >= 1 => Writes[1].path = DefaultPath(TheFilename)
    /\ \A i \in 1 .. Len(log) :
           (log[i].ev = "write" /\ log[i].path # DefaultPath(TheFilename)) =>
               /\ log[i].path = SecondPath(TheFilename)
               /\ i > 1
               /\ log[i - 1] = Event("write", DefaultPath(TheFilename), FALSE)
    /\ \A i \in 1 .. Len(log) :
           (log[i].ev = "write" /\ log[i].ok) =>
               \E f \in files : f.path = log[i].path /\ f.content = TheHtml
    /\ Cardinality(files) <= 1
    /\ Len(Launches) <= 1
    /\ \A i \in 1 .. Len(log) :
           log[i].ev = "launch" =>
               /\ i > 1
               /\ log[i - 1].ev = "write"
               /\ log[i - 1].ok
               /\ log[i - 1].path = log[i].path
    /\ (Len(Writes) = 2 /\ ~Writes[2].ok) => (Launches = <<>> /\ launched = <<>>)
    /\ Len(launched) <= Len(Launches)
    /\ \A i \in 1 .. Len(launched) :
           \E f \in files : f.path = launched[i] /\ f.content = TheHtml

C10_Witness ==
    /\ pc = "done"
    /\ Len(log) = 4
    /\ log[2] = Event("write", DefaultPath(TheFilename), FALSE)
    /\ log[3] = Event("write", SecondPath(TheFilename), TRUE)
    /\ log[4] = Event("launch", SecondPath(TheFilename), TRUE)
    /\ launched = <<SecondPath(TheFilename)>>

====
